---- MODULE Spec2Model ----
(***************************************************************************)
(* Personal CRM: the interaction-logging API server (POST /api/interactions *)
(* and the read endpoints), the seed script and the PostgreSQL tables they  *)
(* share.  Every database statement is one atomic step; a handler is        *)
(* interleaved with the others at each await.  Transactions run READ        *)
(* COMMITTED: a statement sees the committed tables plus the transaction's  *)
(* own writes, and NOW() is the transaction's start time.                   *)
(***************************************************************************)
EXTENDS Integers, Sequences, FiniteSets, TLC

(***************************************************************************)
(* Bounds of the model.                                                     *)
(***************************************************************************)
\* Concurrent HTTP clients of the API server.
MaxClients == 2
\* Clock resolution: ticks per day.
TicksPerDay == 2
\* The clock value of the initial state, and how many days the clock may run.
StartTime == 1000
MaxDays == 3
\* How many days the clock may run where weeks pass (SpecWeeks).
MaxDaysSeq == 40
\* Caps on the SERIAL sequences of contacts and interactions.
MaxContactId == 3
MaxInteractionId == 3
\* How many times the seed script may be run.
MaxSeedRuns == 1
\* The seed script's tables, cut to a prefix.
SeedContactCount == 2
SeedInteractionCount == 1
\* Cap on the ids of relationship_goals.
\* Seed runs, and ids, when the seed script is run again.
MaxSeedReruns == 2
MaxReseedContactId == 4
MaxReseedInteractionId == 2
MaxGoalId == 2

Clients == 1..MaxClients
\* The clock advances by two and a half days; where weeks pass, by five days
\* or by 35 days.
ShortStep == (5 * TicksPerDay) \div 2
LongStep == 35 * TicksPerDay

(***************************************************************************)
(* SQL NULL and JavaScript undefined.                                       *)
(***************************************************************************)
\* NULL of a text column, NULL of a timestamp or integer column, and an absent
\* (undefined) text or number field of a request body.
NULL == "NULL"
NULL_INT == -1
UNDEFINED == "undefined"
UNDEFINED_NUM == -2

\* JavaScript truthiness of a request field: undefined and "" are falsy
\* strings, undefined and 0 are falsy numbers.
Falsy(v) == v \in {UNDEFINED, ""}
FalsyNum(n) == n \in {UNDEFINED_NUM, 0}
\* value || null
OrNull(v) == IF Falsy(v) THEN NULL ELSE v
NumOrNull(n) == IF FalsyNum(n) THEN NULL_INT ELSE n

(***************************************************************************)
(* schema.sql: the interaction type catalog, in insertion order.            *)
(***************************************************************************)
TypeNames ==
    << "phone_call", "facetime_audio", "facetime_video", "sms", "imessage",
       "email", "calendar_meeting" >>

SeededTypes == { [id |-> k, type_name |-> TypeNames[k]] : k \in 1..Len(TypeNames) }

(***************************************************************************)
(* Request inputs.                                                          *)
(***************************************************************************)
ContactNameInputs == {"Bob", "", UNDEFINED}
InteractionTypeInputs == {"phone_call", "carrier_pigeon", UNDEFINED}
DirectionInputs == {UNDEFINED, ""}
DurationInputs == {0}
SubjectInputs == {""}
\* A "timestamp" property of the body, which the handler never reads: absent,
\* or ten days before the clock starts.
TimestampInputs == {UNDEFINED_NUM}
BackdatedInputs == {UNDEFINED_NUM, StartTime - 10 * TicksPerDay}

Bodies ==
    [contact_name : ContactNameInputs, interaction_type : InteractionTypeInputs,
     direction : DirectionInputs, duration_seconds : DurationInputs,
     subject : SubjectInputs, timestamp : TimestampInputs]

\* Bodies with a name of blanks and a timestamp of the caller's.
WideBodies ==
    [contact_name : {"Bob", " ", ""}, interaction_type : {"phone_call"},
     direction : {UNDEFINED}, duration_seconds : DurationInputs,
     subject : SubjectInputs, timestamp : BackdatedInputs]

VARIABLES
    now,                \* the clock, in ticks
    contacts,           \* committed rows of table contacts
    interactions,       \* committed rows of table interactions
    interaction_types,  \* committed rows of table interaction_types
    relationship_goals, \* committed rows of table relationship_goals
    contacts_id_seq,    \* last value of the SERIAL sequence of contacts.id
    interactions_id_seq,\* last value of the SERIAL sequence of interactions.id
    pc,                 \* per client: where its POST handler stands
    req,                \* per client: the request being handled
    tx,                 \* per client: its open transaction
    seed,               \* the seed script's position and locals
    response            \* the HTTP response sent by the last step, if any

vars ==
    << now, contacts, interactions, interaction_types, relationship_goals,
       contacts_id_seq, interactions_id_seq, pc, req, tx, seed, response >>

db == << contacts, interactions, interaction_types, relationship_goals >>

(***************************************************************************)
(* Responses.                                                               *)
(***************************************************************************)
\* param is the route parameter as sent, where a response depends on it.
NoResponse ==
    [op |-> "none", status |-> 0, error |-> "", days |-> 0, rows |-> << >>,
     param |-> << >>]

Reply(op, status, error, days, rows) ==
    [op |-> op, status |-> status, error |-> error, days |-> days, rows |-> rows,
     param |-> << >>]

ReplyTo(op, param, status, error, rows) ==
    [op |-> op, status |-> status, error |-> error, days |-> 0, rows |-> rows,
     param |-> param]

\* The one row of a one-row result set.
SetToSeq1(rows) == IF rows = {} THEN << >> ELSE << CHOOSE r \in rows : TRUE >>

(***************************************************************************)
(* The transaction of a client.                                             *)
(***************************************************************************)
NoReq ==
    [contact_name |-> "", interaction_type |-> "", direction |-> NULL,
     duration_seconds |-> NULL_INT, subject |-> NULL, timestamp |-> UNDEFINED_NUM]

NoTx ==
    [start |-> 0, contactId |-> 0, typeId |-> 0, ins_contacts |-> {},
     ins_interactions |-> {}, upd |-> {}, error |-> ""]

InFlight(c) == pc[c] # "idle"

\* Contact rows another open transaction has updated and not yet committed:
\* an UPDATE of such a row waits for that transaction to end.
LockedByOthers(c) == UNION { tx[o].upd : o \in Clients \ {c} }
LockedByAny == UNION { tx[o].upd : o \in Clients }

\* What a statement of c's transaction sees of table contacts.
VisibleContacts(c) == contacts \cup tx[c].ins_contacts

\* Positions of the POST handler at which a statement of the transaction is
\* about to be sent.
StatementPcs == {"select_contact", "insert_contact", "select_type", "update_contact"}

\* Ids the SERIAL sequences still owe to requests and seed runs under way.
PendingContactIds ==
    Cardinality({c \in Clients : pc[c] \in {"select_contact", "insert_contact"}})
    + seed.owed_contacts

PendingInteractionIds ==
    Cardinality({c \in Clients :
        pc[c] \in {"select_contact", "insert_contact", "select_type"}})
    + seed.owed_interactions

(***************************************************************************)
(* POST /api/interactions                                                   *)
(***************************************************************************)
\* The request as the handler uses it: the two required fields, and the
\* optional ones as they are passed to the INSERT (value || null).
Destructure(body) ==
    [contact_name |-> body.contact_name,
     interaction_type |-> body.interaction_type,
     direction |-> OrNull(body.direction),
     duration_seconds |-> NumOrNull(body.duration_seconds),
     subject |-> OrNull(body.subject)]

\* The request while it is handled: the destructured fields, and the
\* body's timestamp property, which stays in req.body.
Request(body) ==
    [f \in DOMAIN Destructure(body) \cup {"timestamp"} |->
        IF f = "timestamp" THEN body.timestamp ELSE Destructure(body)[f]]

\* Mutant: only contact_name is required.
RejectedNameOnly(body) == Falsy(body.contact_name)

\* if (!contact_name || !interaction_type) return 400
Rejected(body) == Falsy(body.contact_name) \/ Falsy(body.interaction_type)

\* The handler up to BEGIN: validation, a pooled connection (which the pool
\* may fail to give), BEGIN.  NOW() is from here on the time the transaction
\* started.  Clients are interchangeable: a request takes the lowest free one.
PostInteraction(c, body) ==
    /\ pc[c] = "idle"
    /\ \A o \in Clients : o < c => pc[o] # "idle"
    /\ IF Rejected(body)
       THEN /\ response' = Reply("post", 400, "required", 0, << >>)
            /\ UNCHANGED << pc, req, tx >>
       ELSE /\ contacts_id_seq + PendingContactIds < MaxContactId
            /\ interactions_id_seq + PendingInteractionIds < MaxInteractionId
            /\ \/ /\ pc' = [pc EXCEPT ![c] = "select_contact"]
                  /\ req' = [req EXCEPT ![c] = Request(body)]
                  /\ tx' = [tx EXCEPT ![c].start = now]
                  /\ response' = NoResponse
               \/ /\ response' = Reply("post", 500, "store", 0, << >>)
                  /\ UNCHANGED << pc, req, tx >>
    /\ UNCHANGED << now, db, contacts_id_seq, interactions_id_seq, seed >>

\* A statement of the transaction fails at the store (connectivity, a
\* constraint): the store aborts the transaction, whose writes are lost, and
\* the handler's catch block runs next.
StoreError(c) ==
    /\ pc[c] \in StatementPcs
    /\ pc' = [pc EXCEPT ![c] = "rollback"]
    /\ tx' = [tx EXCEPT ![c] = [NoTx EXCEPT !.error = "store"]]
    /\ req' = [req EXCEPT ![c] = NoReq]
    /\ response' = NoResponse
    /\ UNCHANGED << now, db, contacts_id_seq, interactions_id_seq, seed >>

\* Mutant: the lookup by name never finds a row.
ContactsNamedNone(rows, name) == {}

\* SELECT id FROM contacts WHERE name = $1
ContactsNamed(rows, name) == { k \in rows : k.name = name }

\* existing.rows[0] when there is one: without ORDER BY any matching row may
\* come first.
SelectContact(c) ==
    /\ pc[c] = "select_contact"
    /\ LET existing == ContactsNamed(VisibleContacts(c), req[c].contact_name)
       IN  IF existing # {}
           THEN \E k \in existing :
                    /\ tx' = [tx EXCEPT ![c].contactId = k.id]
                    /\ pc' = [pc EXCEPT ![c] = "select_type"]
           ELSE /\ pc' = [pc EXCEPT ![c] = "insert_contact"]
                /\ UNCHANGED tx
    /\ response' = NoResponse
    /\ UNCHANGED << now, db, contacts_id_seq, interactions_id_seq, req, seed >>

\* INSERT INTO contacts (name, relationship_type) VALUES ($1, 'unknown')
NewContactRow(id, name, relationship_type, phone, email, at) ==
    [id |-> id, name |-> name, phone_number |-> phone, email |-> email,
     relationship_type |-> relationship_type, last_interaction_date |-> NULL_INT,
     created_at |-> at, updated_at |-> at]

ImplicitContact(id, name, at) == NewContactRow(id, name, "unknown", NULL, NULL, at)

InsertContact(c) ==
    /\ pc[c] = "insert_contact"
    /\ LET id == contacts_id_seq + 1
       IN  /\ contacts_id_seq' = id
           /\ tx' = [tx EXCEPT ![c].contactId = id,
                               ![c].ins_contacts =
                                   {ImplicitContact(id, req[c].contact_name, tx[c].start)}]
    /\ pc' = [pc EXCEPT ![c] = "select_type"]
    /\ response' = NoResponse
    /\ UNCHANGED << now, db, interactions_id_seq, req, seed >>

\* SELECT id FROM interaction_types WHERE type_name = $1
TypesNamed(name) == { t \in interaction_types : t.type_name = name }

\* INSERT INTO interactions (...) VALUES ($1, $2, $3, NOW(), $4, $5) RETURNING *
NewInteractionRow(id, contactId, typeId, direction, ts, duration, subject, at) ==
    [id |-> id, contact_id |-> contactId, interaction_type_id |-> typeId,
     direction |-> direction, timestamp |-> ts, duration_seconds |-> duration,
     subject |-> subject, notes |-> NULL, created_at |-> at]

RecordedInteraction(c, id, typeId) ==
    NewInteractionRow(id, tx[c].contactId, typeId, req[c].direction, tx[c].start,
                      req[c].duration_seconds, req[c].subject, tx[c].start)

\* The type lookup, and the INSERT of the interaction when the type is known
\* (the catalog does not change, so the two statements are taken in one
\* step); an unknown type name throws inside the transaction.
SelectType(c) ==
    /\ pc[c] = "select_type"
    /\ LET typeResult == TypesNamed(req[c].interaction_type)
           id == interactions_id_seq + 1
       IN  IF typeResult = {}
           THEN /\ pc' = [pc EXCEPT ![c] = "rollback"]
                /\ tx' = [tx EXCEPT ![c].error = "unknown_type"]
                /\ UNCHANGED interactions_id_seq
           ELSE \E t \in typeResult :
                    /\ interactions_id_seq' = id
                    /\ tx' = [tx EXCEPT ![c].typeId = t.id,
                                        ![c].ins_interactions =
                                            {RecordedInteraction(c, id, t.id)}]
                    /\ pc' = [pc EXCEPT ![c] = "update_contact"]
    /\ response' = NoResponse
    /\ UNCHANGED << now, db, contacts_id_seq, req, seed >>

\* Mutant: the UPDATE also resets relationship_type.
TouchedAsUnknown(k, at) ==
    [k EXCEPT !.last_interaction_date = at, !.updated_at = at,
              !.relationship_type = "unknown"]

\* Mutant: the UPDATE forgets updated_at.
TouchedLastOnly(k, at) == [k EXCEPT !.last_interaction_date = at]

\* UPDATE contacts SET last_interaction_date = NOW(), updated_at = NOW()
Touched(k, at) == [k EXCEPT !.last_interaction_date = at, !.updated_at = at]

\* The UPDATE waits while another open transaction holds the row; it changes
\* the transaction's own inserted row at once and a committed row at COMMIT.
UpdateContact(c) ==
    /\ pc[c] = "update_contact"
    /\ tx[c].contactId \notin LockedByOthers(c)
    /\ tx' = [tx EXCEPT
                ![c].upd = {tx[c].contactId},
                ![c].ins_contacts =
                    { IF k.id = tx[c].contactId THEN Touched(k, tx[c].start) ELSE k :
                        k \in tx[c].ins_contacts }]
    /\ pc' = [pc EXCEPT ![c] = "commit"]
    /\ response' = NoResponse
    /\ UNCHANGED << now, db, contacts_id_seq, interactions_id_seq, req, seed >>

\* Mutant: a unique index on name drops the inserted row when a contact of
\* that name is already committed.
CommittedContactsUniqueName(c) ==
    { IF k.id \in tx[c].upd THEN [k EXCEPT !.last_interaction_date = tx[c].start,
                                            !.updated_at = tx[c].start]
      ELSE k : k \in contacts }
        \cup { k \in tx[c].ins_contacts : \A x \in contacts : x.name # k.name }

\* Table contacts once c's transaction is committed.
CommittedContacts(c) ==
    { IF k.id \in tx[c].upd THEN Touched(k, tx[c].start) ELSE k : k \in contacts }
        \cup tx[c].ins_contacts

\* Mutant: the interaction is inserted outside the transaction and lost.
CommittedInteractionsLost(c) == interactions

\* Table interactions once c's transaction is committed.
CommittedInteractions(c) == interactions \cup tx[c].ins_interactions

\* COMMIT, then res.status(201).json({success, interaction}) and release.
Commit(c) ==
    /\ pc[c] = "commit"
    /\ contacts' = CommittedContacts(c)
    /\ interactions' = CommittedInteractions(c)
    /\ response' = Reply("post", 201, "", 0, SetToSeq1(tx[c].ins_interactions))
    /\ pc' = [pc EXCEPT ![c] = "idle"]
    /\ req' = [req EXCEPT ![c] = NoReq]
    /\ tx' = [tx EXCEPT ![c] = NoTx]
    /\ UNCHANGED << now, interaction_types, relationship_goals, contacts_id_seq,
                    interactions_id_seq, seed >>

\* Mutant: ROLLBACK keeps the contact the transaction inserted.
RolledBackContactsKept(c) == contacts \cup tx[c].ins_contacts

\* Tables contacts and interactions once c's transaction is rolled back.
RolledBackContacts(c) == contacts
RolledBackInteractions(c) == interactions

\* Mutant: the catch block answers and keeps the transaction and the
\* connection.
RollbackHolding(c) ==
    /\ pc[c] = "rollback"
    /\ response' = Reply("post", 500, tx[c].error, 0, << >>)
    /\ UNCHANGED << now, db, contacts_id_seq, interactions_id_seq, pc, req, tx, seed >>

\* catch: ROLLBACK, rethrow; finally: release; outer catch: 500 with the message.
Rollback(c) ==
    /\ pc[c] = "rollback"
    /\ contacts' = RolledBackContacts(c)
    /\ interactions' = RolledBackInteractions(c)
    /\ response' = Reply("post", 500, tx[c].error, 0, << >>)
    /\ pc' = [pc EXCEPT ![c] = "idle"]
    /\ req' = [req EXCEPT ![c] = NoReq]
    /\ tx' = [tx EXCEPT ![c] = NoTx]
    /\ UNCHANGED << now, interaction_types, relationship_goals, contacts_id_seq,
                    interactions_id_seq, seed >>

(***************************************************************************)
(* scripts/seed-db.js                                                       *)
(***************************************************************************)
SeedContact(name, relationship_type, phone, email) ==
    [name |-> name, relationship_type |-> relationship_type, phone |-> phone,
     email |-> email]

\* const contacts = [...]: phone or email is undefined where not given.
SeedContacts ==
    << SeedContact("Mom", "family", "555-0101", UNDEFINED),
       SeedContact("Dad", "family", "555-0102", UNDEFINED),
       SeedContact("Jake Sullivan", "friend", "555-0201", UNDEFINED),
       SeedContact("Priya Nair", "friend", "555-0202", UNDEFINED),
       SeedContact("Tom Reyes", "friend", "555-0203", UNDEFINED),
       SeedContact("Sarah Chen", "colleague", UNDEFINED, "sarah.chen@work.com"),
       SeedContact("Marcus Webb", "colleague", UNDEFINED, "marcus@work.com"),
       SeedContact("Dana Park", "friend", "555-0204", UNDEFINED),
       SeedContact("Uncle Rob", "family", "555-0103", UNDEFINED),
       SeedContact("Lisa Tran", "friend", "555-0205", UNDEFINED) >>

\* const interactions = [...]: [contact_index, type, direction, days_ago,
\* duration_seconds], the index counted from 1 here and a null duration as 0
\* (duration || null stores both as NULL).
SeedInteractions ==
    << << 1, "phone_call", "incoming", 3, 900 >>,
       << 1, "phone_call", "outgoing", 10, 1200 >>,
       << 1, "imessage", "incoming", 12, 0 >>,
       << 1, "phone_call", "outgoing", 24, 600 >>,
       << 2, "phone_call", "outgoing", 8, 480 >>,
       << 2, "facetime_video", "outgoing", 35, 1800 >>,
       << 2, "phone_call", "incoming", 62, 300 >> >>

\* daysAgo(n): the clock set back n days.
daysAgo(n) == now - n * TicksPerDay

SeedIdle ==
    [pc |-> "idle", i |-> 0, types |-> {}, contactIds |-> << >>, at |-> 0,
     maxes |-> << >>, owed_contacts |-> 0, owed_interactions |-> 0, runs |-> 0]

\* node scripts/seed-db.js: SELECT id, type_name FROM interaction_types
SeedStartWithin(maxRuns, maxContactId, maxInteractionId) ==
    /\ seed.pc = "idle"
    /\ seed.runs < maxRuns
    /\ contacts_id_seq + PendingContactIds + SeedContactCount <= maxContactId
    /\ interactions_id_seq + PendingInteractionIds + SeedInteractionCount
           <= maxInteractionId
    /\ seed' = [seed EXCEPT !.pc = "contacts", !.i = 1,
                            !.types = interaction_types, !.contactIds = << >>,
                            !.owed_contacts = SeedContactCount,
                            !.owed_interactions = SeedInteractionCount]
    /\ response' = NoResponse
    /\ UNCHANGED << now, db, contacts_id_seq, interactions_id_seq, pc, req, tx >>

SeedStart == SeedStartWithin(MaxSeedRuns, MaxContactId, MaxInteractionId)

\* The script run a second time.
SeedAgain == SeedStartWithin(MaxSeedReruns, MaxReseedContactId, MaxReseedInteractionId)

\* ON CONFLICT DO NOTHING skips the row only when a unique index of the table
\* already holds its key: contacts has the primary key on id and no other.
InsertConflicts(row, rows) == \E k \in rows : k.id = row.id

\* INSERT INTO contacts ... ON CONFLICT DO NOTHING RETURNING id (autocommit);
\* when no row comes back, SELECT id FROM contacts WHERE name = $1.
SeedInsertContact ==
    /\ seed.pc = "contacts"
    /\ LET c == SeedContacts[seed.i]
           id == contacts_id_seq + 1
           row == NewContactRow(id, c.name, c.relationship_type, OrNull(c.phone),
                                OrNull(c.email), now)
           last == seed.i = SeedContactCount
       IN  /\ contacts_id_seq' = id
           /\ IF ~InsertConflicts(row, contacts)
              THEN /\ contacts' = contacts \cup {row}
                   /\ seed' = [seed EXCEPT
                                 !.contactIds = Append(@, id),
                                 !.owed_contacts = @ - 1,
                                 !.i = IF last THEN 1 ELSE @ + 1,
                                 !.pc = IF last THEN "interactions" ELSE @]
              ELSE /\ \E k \in ContactsNamed(contacts, c.name) :
                          seed' = [seed EXCEPT
                                     !.contactIds = Append(@, k.id),
                                     !.owed_contacts = @ - 1,
                                     !.i = IF last THEN 1 ELSE @ + 1,
                                     !.pc = IF last THEN "interactions" ELSE @]
                   /\ UNCHANGED contacts
    /\ response' = NoResponse
    /\ UNCHANGED << now, interactions, interaction_types, relationship_goals,
                    interactions_id_seq, pc,
                    req, tx >>

\* typeMap[type]
SeedTypeId(types, name) == (CHOOSE t \in types : t.type_name = name).id

\* INSERT INTO interactions (contact_id, interaction_type_id, direction,
\* timestamp, duration_seconds) VALUES (...) (autocommit)
SeedInsertInteraction ==
    /\ seed.pc = "interactions"
    /\ LET r == SeedInteractions[seed.i]
           id == interactions_id_seq + 1
           row == NewInteractionRow(id, seed.contactIds[r[1]],
                                    SeedTypeId(seed.types, r[2]), r[3],
                                    daysAgo(r[4]), NumOrNull(r[5]), NULL, now)
           last == seed.i = SeedInteractionCount
       IN  /\ interactions_id_seq' = id
           /\ interactions' = interactions \cup {row}
           /\ seed' = [seed EXCEPT !.owed_interactions = @ - 1,
                                   !.i = IF last THEN 0 ELSE @ + 1,
                                   !.pc = IF last THEN "update" ELSE @]
    /\ response' = NoResponse
    /\ UNCHANGED << now, contacts, interaction_types, relationship_goals,
                    contacts_id_seq, pc, req, tx >>

\* SELECT MAX(timestamp) FROM interactions WHERE contact_id = $1
MaxTimestamp(rows, contactId) ==
    LET ts == { i.timestamp : i \in { j \in rows : j.contact_id = contactId } }
    IN  IF ts = {} THEN NULL_INT ELSE CHOOSE t \in ts : \A u \in ts : u <= t

\* UPDATE contacts c SET last_interaction_date = (SELECT MAX(timestamp) ...),
\* updated_at = NOW(): the statement reads the tables as committed when it
\* starts ...
SeedUpdateRead ==
    /\ seed.pc = "update"
    /\ seed' = [seed EXCEPT
                  !.pc = "write", !.at = now,
                  !.maxes = [id \in { k.id : k \in contacts } |->
                                MaxTimestamp(interactions, id)]]
    /\ response' = NoResponse
    /\ UNCHANGED << now, db, contacts_id_seq, interactions_id_seq, pc, req, tx >>

\* Table contacts once the seed's UPDATE has written its rows.
SeedUpdatedContacts ==
    { IF k.id \in DOMAIN seed.maxes
      THEN [k EXCEPT !.last_interaction_date = seed.maxes[k.id],
                     !.updated_at = seed.at]
      ELSE k : k \in contacts }

\* ... and writes each row once no open transaction holds it; then the summary
\* is printed and the script ends.
SeedUpdateWrite ==
    /\ seed.pc = "write"
    /\ DOMAIN seed.maxes \cap LockedByAny = {}
    /\ contacts' = SeedUpdatedContacts
    /\ seed' = [SeedIdle EXCEPT !.runs = seed.runs + 1]
    /\ response' = NoResponse
    /\ UNCHANGED << now, interactions, interaction_types, relationship_goals,
                    contacts_id_seq,
                    interactions_id_seq, pc, req, tx >>

(***************************************************************************)
(* GET /api/contacts/overdue/:days                                          *)
(***************************************************************************)
\* A route parameter is a string, here the sequence of its characters.
Digits == << "0", "1", "2", "3", "4", "5", "6", "7", "8", "9" >>
IsDigit(ch) == \E d \in 1..Len(Digits) : Digits[d] = ch
DigitValue(ch) == (CHOOSE d \in 1..Len(Digits) : Digits[d] = ch) - 1

NaN == [nan |-> TRUE, val |-> 0]
Number(n) == [nan |-> FALSE, val |-> n]

\* The digits of str from position i on, up to the first character that is
\* no digit, read in base 10 onto acc.
RECURSIVE ParseDigits(_, _, _)
ParseDigits(str, i, acc) ==
    IF i > Len(str) \/ ~IsDigit(str[i])
    THEN acc
    ELSE ParseDigits(str, i + 1, 10 * acc + DigitValue(str[i]))

\* parseInt(str): leading blanks skipped, an optional sign, then decimal
\* digits; NaN when no digit follows.
RECURSIVE parseInt(_)
parseInt(str) ==
    IF str = << >> THEN NaN
    ELSE IF Head(str) = " " THEN parseInt(Tail(str))
    ELSE LET signed == Head(str) \in {"+", "-"}
             first == IF signed THEN 2 ELSE 1
         IN  IF first > Len(str) \/ ~IsDigit(str[first])
             THEN NaN
             ELSE LET n == ParseDigits(str, first, 0)
                  IN  Number(IF Head(str) = "-" THEN 0 - n ELSE n)

DaysParams ==
    { << "2" >>, << "3", "x" >>, << "3", "0" >>, << "5", "0" >>, << "a", "b", "c" >> }

\* Mutant: the IS NULL branch is missing.
OverdueWhereNoNull(k, days, at) ==
    /\ k.last_interaction_date # NULL_INT
    /\ k.last_interaction_date < at - days * TicksPerDay

\* Mutant: the comparison is <=.
OverdueWhereInclusive(k, days, at) ==
    \/ k.last_interaction_date = NULL_INT
    \/ k.last_interaction_date <= at - days * TicksPerDay

\* Mutant: the threshold is compared with the day the contact was created.
OverdueWhereSinceCreated(k, days, at) ==
    \/ k.last_interaction_date = NULL_INT
    \/ k.created_at < at - days * TicksPerDay

\* WHERE last_interaction_date IS NULL
\*    OR last_interaction_date < NOW() - INTERVAL '1 day' * $1
OverdueWhere(k, days, at) ==
    \/ k.last_interaction_date = NULL_INT
    \/ k.last_interaction_date < at - days * TicksPerDay

\* Mutant: COALESCE(..., 0) for a contact never contacted.
DaysSinceOrZero(ts, at) == IF ts = NULL_INT THEN 0 ELSE (at - ts) \div TicksPerDay

\* EXTRACT(DAY FROM NOW() - last_interaction_date): the whole days of the
\* interval, NULL for a NULL timestamp.
DaysSince(ts, at) == IF ts = NULL_INT THEN NULL_INT ELSE (at - ts) \div TicksPerDay

\* SELECT id, name, phone_number, email, relationship_type,
\*        last_interaction_date, EXTRACT(...) as days_since_contact
OverdueRow(k, at) ==
    [id |-> k.id, name |-> k.name, phone_number |-> k.phone_number,
     email |-> k.email, relationship_type |-> k.relationship_type,
     last_interaction_date |-> k.last_interaction_date,
     days_since_contact |-> DaysSince(k.last_interaction_date, at)]

\* Mutant: ORDER BY last_interaction_date ASC (NULLS LAST, the default).
OverdueBeforeNullsLast(a, b) ==
    \/ b.last_interaction_date = NULL_INT
    \/ /\ a.last_interaction_date # NULL_INT
       /\ a.last_interaction_date <= b.last_interaction_date

\* ORDER BY last_interaction_date ASC NULLS FIRST: a may come before b.
OverdueBefore(a, b) ==
    \/ a.last_interaction_date = NULL_INT
    \/ /\ b.last_interaction_date # NULL_INT
       /\ a.last_interaction_date <= b.last_interaction_date

\* Every order in which the store may return the rows: rows that tie under
\* ORDER BY come in any order.
RECURSIVE OverdueOrderings(_)
OverdueOrderings(rows) ==
    IF rows = {} THEN { << >> }
    ELSE UNION { { << m >> \o rest : rest \in OverdueOrderings(rows \ {m}) } :
                 m \in { x \in rows : \A y \in rows : OverdueBefore(x, y) } }

OverdueRows(days, at) == { OverdueRow(k, at) : k \in { x \in contacts : OverdueWhere(x, days, at) } }

\* The handler: one autocommit query.  NaN is sent as the float NaN, which
\* the store refuses to multiply an interval by (interval out of range), and
\* the store may fail the query: both throw, and the catch answers 500 with
\* the error's message.
GetOverdue(param) ==
    /\ LET days == parseInt(param)
       IN  \/ /\ ~days.nan
              /\ \E rows \in OverdueOrderings(OverdueRows(days.val, now)) :
                    response' = Reply("overdue", 200, "", days.val, rows)
           \/ /\ days.nan
              /\ response' = ReplyTo("overdue", param, 500, "interval out of range", << >>)
           \/ response' = Reply("overdue", 500, "store", 0, << >>)
    /\ UNCHANGED << now, db, contacts_id_seq, interactions_id_seq, pc, req, tx, seed >>

(***************************************************************************)
(* GET /api/contacts                                                        *)
(***************************************************************************)
\* Every order in which the store may return rows under an ORDER BY whose
\* "may come before" relation is the set of pairs before: rows that tie come
\* in any order.
RECURSIVE OrderingsBy(_, _)
OrderingsBy(rows, before) ==
    IF rows = {} THEN { << >> }
    ELSE UNION { { << m >> \o rest : rest \in OrderingsBy(rows \ {m}, before) } :
                 m \in { x \in rows : \A y \in rows : << x, y >> \in before } }

\* SELECT id, name, phone_number, email, relationship_type, last_interaction_date
ContactRow(k) ==
    [id |-> k.id, name |-> k.name, phone_number |-> k.phone_number,
     email |-> k.email, relationship_type |-> k.relationship_type,
     last_interaction_date |-> k.last_interaction_date]

\* Mutant: ORDER BY last_interaction_date DESC (NULLS FIRST, the default).
ContactsBeforeNullsFirst(a, b) ==
    \/ a.last_interaction_date = NULL_INT
    \/ /\ b.last_interaction_date # NULL_INT
       /\ a.last_interaction_date >= b.last_interaction_date

\* ORDER BY last_interaction_date DESC NULLS LAST: a may come before b.
ContactsBefore(a, b) ==
    \/ b.last_interaction_date = NULL_INT
    \/ /\ a.last_interaction_date # NULL_INT
       /\ a.last_interaction_date >= b.last_interaction_date

\* The rows of the listing, and the pairs of them ORDER BY allows in that
\* order.
ContactRows == { ContactRow(k) : k \in contacts }
ContactsOrder == { p \in ContactRows \X ContactRows : ContactsBefore(p[1], p[2]) }

\* Mutant: the listing marks every contact as modified.
GetContactsTouching ==
    /\ \E rows \in OrderingsBy(ContactRows, ContactsOrder) :
          response' = ReplyTo("contacts", << >>, 200, "", rows)
    /\ contacts' = { [k EXCEPT !.updated_at = now] : k \in contacts }
    /\ UNCHANGED << now, interactions, interaction_types, relationship_goals,
                    contacts_id_seq, interactions_id_seq, pc, req, tx, seed >>

\* The handler: one autocommit query, which the store may fail.
GetContacts ==
    /\ \/ \E rows \in OrderingsBy(ContactRows, ContactsOrder) :
              response' = ReplyTo("contacts", << >>, 200, "", rows)
       \/ response' = ReplyTo("contacts", << >>, 500, "store", << >>)
    /\ UNCHANGED << now, db, contacts_id_seq, interactions_id_seq, pc, req, tx, seed >>

(***************************************************************************)
(* GET /api/interactions/recent/:limit                                      *)
(***************************************************************************)
LimitParams == { << "2" >>, << "0" >>, << "-", "1" >>, << "x" >> }

\* parseInt(req.params.limit) || 10
DefaultLimit == 10
LimitOf(param) ==
    LET n == parseInt(param)
    IN  IF n.nan \/ n.val = 0 THEN DefaultLimit ELSE n.val

\* FROM interactions i JOIN contacts c ON i.contact_id = c.id
\*                     JOIN interaction_types it ON i.interaction_type_id = it.id
RecentRows ==
    { [id |-> j[1].id, timestamp |-> j[1].timestamp, direction |-> j[1].direction,
       duration_seconds |-> j[1].duration_seconds, subject |-> j[1].subject,
       contact_name |-> j[2].name, type_name |-> j[3].type_name] :
      j \in { x \in interactions \X contacts \X interaction_types :
                 x[1].contact_id = x[2].id /\ x[1].interaction_type_id = x[3].id } }

\* Mutant: ORDER BY i.timestamp ASC.
RecentBeforeAscending(a, b) == a.timestamp <= b.timestamp

\* ORDER BY i.timestamp DESC: a may come before b.
RecentBefore(a, b) == a.timestamp >= b.timestamp

RecentOrder(rows) == { p \in rows \X rows : RecentBefore(p[1], p[2]) }

\* LIMIT n, for n >= 0.
Limited(rows, n) == SubSeq(rows, 1, IF n < Len(rows) THEN n ELSE Len(rows))

\* The handler: one autocommit query.  The store refuses a negative LIMIT,
\* and may fail the query: both throw, and the catch answers 500.
GetRecent(param) ==
    /\ LET limit == LimitOf(param)
       IN  \/ /\ limit >= 0
              /\ \E rows \in OrderingsBy(RecentRows, RecentOrder(RecentRows)) :
                    response' = ReplyTo("recent", param, 200, "", Limited(rows, limit))
           \/ /\ limit < 0
              /\ response' = ReplyTo("recent", param, 500, "LIMIT must not be negative", << >>)
           \/ response' = ReplyTo("recent", << >>, 500, "store", << >>)
    /\ UNCHANGED << now, db, contacts_id_seq, interactions_id_seq, pc, req, tx, seed >>

(***************************************************************************)
(* GET /api/contacts/:id and GET /api/contacts/:id/stats                    *)
(***************************************************************************)
IdParams == { << "1" >>, << "9" >>, << "x" >> }

\* The store's reading of a text parameter as an integer column value: the
\* whole of it is an optional sign and digits, or the statement fails.
pgInteger(str) ==
    LET n == parseInt(str)
        first == IF str # << >> /\ Head(str) \in {"+", "-"} THEN 2 ELSE 1
    IN  IF str # << >> /\ Head(str) # " " /\ \A i \in first..Len(str) : IsDigit(str[i])
        THEN n
        ELSE NaN

\* SELECT i.id, i.timestamp, ..., it.type_name FROM interactions i
\* JOIN interaction_types it ... WHERE i.contact_id = $1
DetailRows(id) ==
    { [id |-> j[1].id, timestamp |-> j[1].timestamp, direction |-> j[1].direction,
       duration_seconds |-> j[1].duration_seconds, subject |-> j[1].subject,
       notes |-> j[1].notes, type_name |-> j[2].type_name] :
      j \in { x \in interactions \X interaction_types :
                 x[1].contact_id = id /\ x[1].interaction_type_id = x[2].id } }

\* The handler: the contact by id, 404 when there is none, then its
\* interactions, latest first.  Contacts are never deleted, so the two
\* queries are taken in one step.
GetContact(param) ==
    /\ LET contactId == pgInteger(param)
           contact == { k \in contacts : k.id = contactId.val }
       IN  \/ /\ contactId.nan
              /\ response' = ReplyTo("contact", param, 500,
                                     "invalid input syntax for type integer", << >>)
           \/ /\ ~contactId.nan
              /\ contact = {}
              /\ response' = ReplyTo("contact", param, 404, "Contact not found", << >>)
           \/ /\ ~contactId.nan
              /\ \E k \in contact :
                 \E rows \in OrderingsBy(DetailRows(k.id), RecentOrder(DetailRows(k.id))) :
                    response' = ReplyTo("contact", param, 200, "",
                                        << [contact |-> k, interactions |-> rows] >>)
           \/ response' = ReplyTo("contact", << >>, 500, "store", << >>)
    /\ UNCHANGED << now, db, contacts_id_seq, interactions_id_seq, pc, req, tx, seed >>

\* The select list of the stats query: each column's outermost aggregate
\* and the aggregates called inside that aggregate's argument.
StatsSelectList ==
    << [column |-> "name", aggregate |-> "", inner |-> {}],
       [column |-> "total_interactions", aggregate |-> "COUNT", inner |-> {}],
       [column |-> "outgoing_count", aggregate |-> "COUNT", inner |-> {}],
       [column |-> "incoming_count", aggregate |-> "COUNT", inner |-> {}],
       [column |-> "last_interaction", aggregate |-> "MAX", inner |-> {}],
       [column |-> "first_interaction", aggregate |-> "MIN", inner |-> {}],
       [column |-> "avg_days_between_interactions", aggregate |-> "AVG",
        inner |-> {"MAX", "MIN", "COUNT"}] >>

\* The store rejects a statement in which an aggregate is called inside the
\* argument of another aggregate of the same query level, whatever the data:
\* "aggregate function calls cannot be nested".
NestedAggregate(selectList) ==
    \E j \in 1..Len(selectList) :
        selectList[j].aggregate # "" /\ selectList[j].inner # {}

Least(S) == CHOOSE m \in S : \A x \in S : m <= x
Greatest(S) == CHOOSE m \in S : \A x \in S : m >= x

\* The one group of contact k under GROUP BY c.name with the LEFT JOIN, as
\* the select list would compute it.
StatsRow(k) ==
    LET mine == { i \in interactions : i.contact_id = k.id }
        times == { i.timestamp : i \in mine }
        n == Cardinality(mine)
    IN  [name |-> k.name,
         total_interactions |-> n,
         outgoing_count |-> Cardinality({ i \in mine : i.direction = "outgoing" }),
         incoming_count |-> Cardinality({ i \in mine : i.direction = "incoming" }),
         last_interaction |-> IF n = 0 THEN NULL_INT ELSE Greatest(times),
         first_interaction |-> IF n = 0 THEN NULL_INT ELSE Least(times),
         avg_days_between_interactions |->
             IF n <= 1 THEN NULL_INT
             ELSE (2 * ((Greatest(times) - Least(times)) \div TicksPerDay) + (n - 1))
                      \div (2 * (n - 1))]

\* The handler: one autocommit query, 404 when it returns no row.  The
\* statement is analysed before its parameter is read.
GetContactStats(param) ==
    /\ LET contactId == pgInteger(param)
           contact == { k \in contacts : k.id = contactId.val }
       IN  \/ /\ NestedAggregate(StatsSelectList)
              /\ response' = ReplyTo("stats", param, 500,
                                     "aggregate function calls cannot be nested", << >>)
           \/ /\ ~NestedAggregate(StatsSelectList)
              /\ contactId.nan
              /\ response' = ReplyTo("stats", param, 500,
                                     "invalid input syntax for type integer", << >>)
           \/ /\ ~NestedAggregate(StatsSelectList)
              /\ ~contactId.nan
              /\ contact = {}
              /\ response' = ReplyTo("stats", param, 404, "Contact not found", << >>)
           \/ /\ ~NestedAggregate(StatsSelectList)
              /\ ~contactId.nan
              /\ \E k \in contact :
                    response' = ReplyTo("stats", param, 200, "", << StatsRow(k) >>)
           \/ response' = ReplyTo("stats", << >>, 500, "store", << >>)
    /\ UNCHANGED << now, db, contacts_id_seq, interactions_id_seq, pc, req, tx, seed >>

(***************************************************************************)
(* schema.sql, as init-db.sh applies it.                                    *)
(***************************************************************************)
\* Mutant: the INSERT has no ON CONFLICT clause and the column no UNIQUE.
TypeConflictsNever(name) == FALSE

\* ON CONFLICT (type_name): a row of that type_name is there.
TypeConflicts(name) == \E t \in interaction_types : t.type_name = name

\* The last id the SERIAL sequence of interaction_types gave to a row.
LastTypeId ==
    IF interaction_types = {} THEN 0 ELSE Greatest({ t.id : t \in interaction_types })

\* One run of schema.sql: CREATE TABLE IF NOT EXISTS and CREATE INDEX IF NOT
\* EXISTS leave existing tables and their rows alone; the INSERT adds the
\* catalog rows that do not conflict, in the order of its VALUES list.  The
\* response is psql's exit status and the names inserted.
RunSchema ==
    /\ LET names == SelectSeq(TypeNames, LAMBDA n : ~TypeConflicts(n))
       IN  /\ interaction_types' =
                  interaction_types \cup
                      { [id |-> LastTypeId + k, type_name |-> names[k]] : k \in 1..Len(names) }
           /\ response' = ReplyTo("schema", << >>, 0, "", names)
    /\ UNCHANGED << now, contacts, interactions, relationship_goals, contacts_id_seq,
                    interactions_id_seq,
                    pc, req, tx, seed >>

(***************************************************************************)
(* schema.sql: the foreign keys of relationship_goals and interactions,     *)
(* under statements sent to the store by hand (no handler and no script     *)
(* inserts a goal or deletes a contact).                                    *)
(***************************************************************************)
\* The greatest id of a goal; ids of deleted goals are not told apart from
\* new ones.
LastGoalId ==
    IF relationship_goals = {} THEN 0 ELSE Greatest({ g.id : g \in relationship_goals })

\* INSERT INTO relationship_goals (contact_id) VALUES ($1): contact_id
\* REFERENCES contacts(id), so the statement fails when no contact has the id.
InsertGoal(contactId) ==
    /\ LastGoalId < MaxGoalId
    /\ IF \E k \in contacts : k.id = contactId
       THEN relationship_goals' =
                relationship_goals \cup
                    { [id |-> LastGoalId + 1, contact_id |-> contactId,
                       goal_description |-> NULL, frequency_days |-> NULL_INT,
                       last_reached_out_date |-> NULL_INT, created_at |-> now] }
       ELSE UNCHANGED relationship_goals
    /\ response' = NoResponse
    /\ UNCHANGED << now, contacts, interactions, interaction_types, contacts_id_seq,
                    interactions_id_seq, pc, req, tx, seed >>

\* Mutant: interactions.contact_id has no ON DELETE CASCADE (and no check).
CascadedInteractionsKept(contactId) == interactions

\* ON DELETE CASCADE: the rows left in interactions and in relationship_goals
\* once the contact is deleted.
CascadedInteractions(contactId) == { i \in interactions : i.contact_id # contactId }
CascadedGoals(contactId) == { g \in relationship_goals : g.contact_id # contactId }

\* DELETE FROM contacts WHERE id = $1, for the id of a contact.  The
\* response tells how many rows the cascade removed.
DeleteContact(contactId) ==
    /\ \E k \in contacts : k.id = contactId
    /\ contacts' = { k \in contacts : k.id # contactId }
    /\ interactions' = CascadedInteractions(contactId)
    /\ relationship_goals' = CascadedGoals(contactId)
    /\ response' =
          ReplyTo("delete", << >>, 0, "",
                  << [contact_id |-> contactId,
                      interactions |->
                          Cardinality({ i \in interactions : i.contact_id = contactId }),
                      goals |->
                          Cardinality({ g \in relationship_goals : g.contact_id = contactId })] >>)
    /\ UNCHANGED << now, interaction_types, contacts_id_seq, interactions_id_seq, pc,
                    req, tx, seed >>

(***************************************************************************)
(* The clock.                                                               *)
(***************************************************************************)
Tick(step, maxDays) ==
    /\ now + step <= StartTime + maxDays * TicksPerDay
    /\ now' = now + step
    /\ response' = NoResponse
    /\ UNCHANGED << db, contacts_id_seq, interactions_id_seq, pc, req, tx, seed >>

(***************************************************************************)
(* The specification.                                                       *)
(***************************************************************************)
Init ==
    /\ now = StartTime
    /\ contacts = {}
    /\ interactions = {}
    /\ interaction_types = SeededTypes
    /\ relationship_goals = {}
    /\ contacts_id_seq = 0
    /\ interactions_id_seq = 0
    /\ pc = [c \in Clients |-> "idle"]
    /\ req = [c \in Clients |-> NoReq]
    /\ tx = [c \in Clients |-> NoTx]
    /\ seed = SeedIdle
    /\ response = NoResponse

\* A step of the POST handler of client c.
Post(c) ==
    \/ \E body \in Bodies : PostInteraction(c, body)
    \/ StoreError(c)
    \/ SelectContact(c)
    \/ InsertContact(c)
    \/ SelectType(c)
    \/ UpdateContact(c)
    \/ Commit(c)
    \/ Rollback(c)

\* A step of the seed script.
Seed ==
    \/ SeedStart
    \/ SeedInsertContact
    \/ SeedInsertInteraction
    \/ SeedUpdateRead
    \/ SeedUpdateWrite

\* The writers: concurrent requests to POST /api/interactions and the seed
\* script, interleaved at every statement.
Next ==
    \/ \E c \in Clients : Post(c)
    \/ Seed
    \/ Tick(ShortStep, MaxDays)

Spec == Init /\ [][Next]_vars

\* The writers and the overdue listing.
NextOverdue ==
    \/ \E c \in Clients : Post(c)
    \/ Seed
    \/ Tick(ShortStep, MaxDays)
    \/ \E param \in DaysParams : GetOverdue(param)

SpecOverdue == Init /\ [][NextOverdue]_vars

\* Calls that do not overlap: a request is handled, and the seed script run,
\* from start to end with no other writer under way.
Alone(c) == seed.pc = "idle" /\ \A o \in Clients \ {c} : pc[o] = "idle"
NoRequest == \A c \in Clients : pc[c] = "idle"

NextSeq ==
    \/ \E c \in Clients : Alone(c) /\ Post(c)
    \/ NoRequest /\ Seed
    \/ Tick(ShortStep, MaxDays)

SpecSeq == Init /\ [][NextSeq]_vars

\* Requests that do not overlap, over weeks, and the overdue listing.
NextWeeks ==
    \/ \E c \in Clients : Alone(c) /\ Post(c)
    \/ \E step \in {2 * ShortStep, LongStep} : Tick(step, MaxDaysSeq)
    \/ \E param \in DaysParams : GetOverdue(param)

SpecWeeks == Init /\ [][NextWeeks]_vars

\* A step of the POST handler of client c, for the wider bodies.
PostWide(c) ==
    \/ \E body \in WideBodies : PostInteraction(c, body)
    \/ StoreError(c)
    \/ SelectContact(c)
    \/ InsertContact(c)
    \/ SelectType(c)
    \/ UpdateContact(c)
    \/ Commit(c)
    \/ Rollback(c)

\* The reads of the API.
Reads ==
    \/ GetContacts
    \/ \E param \in DaysParams : GetOverdue(param)
    \/ \E param \in LimitParams : GetRecent(param)
    \/ \E param \in IdParams : GetContact(param)
    \/ \E param \in IdParams : GetContactStats(param)

\* Requests that do not overlap, the seed script, and the reads.  A read
\* sees committed rows only, which a request under way has not changed: the
\* reads are taken between the requests.
NextApi ==
    \/ \E c \in Clients : Alone(c) /\ PostWide(c)
    \/ NoRequest /\ Seed
    \/ Tick(ShortStep, MaxDays)
    \/ NoRequest /\ Reads

SpecApi == Init /\ [][NextApi]_vars

\* A database on which schema.sql has not been run yet.
InitFresh ==
    /\ now = StartTime
    /\ contacts = {}
    /\ interactions = {}
    /\ interaction_types = {}
    /\ relationship_goals = {}
    /\ contacts_id_seq = 0
    /\ interactions_id_seq = 0
    /\ pc = [c \in Clients |-> "idle"]
    /\ req = [c \in Clients |-> NoReq]
    /\ tx = [c \in Clients |-> NoTx]
    /\ seed = SeedIdle
    /\ response = NoResponse

\* schema.sql run any number of times, before and between the requests of a
\* server that is started once the schema is there.
NextInit ==
    \/ RunSchema
    \/ \E c \in Clients : interaction_types # {} /\ Alone(c) /\ Post(c)
    \/ Tick(ShortStep, MaxDays)

SpecInit == InitFresh /\ [][NextInit]_vars

\* Requests and seed runs that do not overlap, and between them goals
\* inserted and contacts deleted by hand.
Quiet == NoRequest /\ seed.pc = "idle"

NextDelete ==
    \/ \E c \in Clients : Alone(c) /\ Post(c)
    \/ NoRequest /\ Seed
    \/ \E id \in 1..MaxContactId : Quiet /\ InsertGoal(id)
    \/ \E id \in 1..MaxContactId : Quiet /\ DeleteContact(id)
    \/ Tick(ShortStep, MaxDays)

SpecDelete == Init /\ [][NextDelete]_vars

\* Bodies that name a seeded contact, and give a direction or a word that
\* is no direction.
NamedBodies ==
    [contact_name : {"Bob", "Mom"}, interaction_type : {"phone_call"},
     direction : {UNDEFINED, "outgoing", "sideways"}, duration_seconds : DurationInputs,
     subject : SubjectInputs, timestamp : TimestampInputs]

\* A step of the POST handler of client c, for these bodies.
PostNamed(c) ==
    \/ \E body \in NamedBodies : PostInteraction(c, body)
    \/ StoreError(c)
    \/ SelectContact(c)
    \/ InsertContact(c)
    \/ SelectType(c)
    \/ UpdateContact(c)
    \/ Commit(c)
    \/ Rollback(c)

\* Requests that do not overlap, for new and for seeded contacts.
NextNamed ==
    \/ \E c \in Clients : Alone(c) /\ PostNamed(c)
    \/ NoRequest /\ Seed
    \/ Tick(ShortStep, MaxDays)

SpecNamed == Init /\ [][NextNamed]_vars

\* The steps of c's handler that the event loop and the store take whenever
\* they can: each awaited statement is answered, and a row lock is granted
\* to its waiters in the order they came, once its holder's transaction ends.
Proceed(c) ==
    \/ SelectContact(c)
    \/ InsertContact(c)
    \/ SelectType(c)
    \/ UpdateContact(c)
    \/ Commit(c)
    \/ Rollback(c)

\* Concurrent requests, each of which is carried on.
NextLive ==
    \/ \E c \in Clients : Post(c)
    \/ Tick(ShortStep, MaxDays)

SpecLive == Init /\ [][NextLive]_vars /\ \A c \in Clients : SF_vars(Proceed(c))

\* The seed script run up to twice.
Reseed ==
    \/ SeedAgain
    \/ SeedInsertContact
    \/ SeedInsertInteraction
    \/ SeedUpdateRead
    \/ SeedUpdateWrite

\* Requests and seed runs that do not overlap.
NextReseed ==
    \/ \E c \in Clients : Alone(c) /\ Post(c)
    \/ NoRequest /\ Reseed
    \/ Tick(ShortStep, MaxDays)

SpecReseed == Init /\ [][NextReseed]_vars

(***************************************************************************)
(* Properties.                                                              *)
(***************************************************************************)
\* The occurrence timestamps of the committed interactions of contact id.
OccurrencesOf(id) == { i.timestamp : i \in { j \in interactions : j.contact_id = id } }

\* Client c's transaction ends in this step with COMMIT, or with ROLLBACK.
Commits(c) == pc[c] = "commit" /\ pc'[c] = "idle"
RollsBack(c) == pc[c] = "rollback" /\ pc'[c] = "idle"

\* C1: after any sequence and interleaving of record-interaction requests and
\* seed runs (no request and no seed run is under way), each contact's
\* last_interaction_date is the greatest occurrence timestamp among its
\* interactions, and NULL when it has none.
C1_LastInteractionIsMax ==
    (seed.pc = "idle" /\ \A c \in Clients : pc[c] = "idle")
    => \A k \in contacts :
           IF OccurrencesOf(k.id) = {}
           THEN k.last_interaction_date = NULL_INT
           ELSE /\ k.last_interaction_date \in OccurrencesOf(k.id)
                /\ \A t \in OccurrencesOf(k.id) : t <= k.last_interaction_date

\* C2: a request whose interaction type is not in the catalog never gets to
\* insert an interaction or to commit, and the step that ends it answers with
\* the unknown-type error and leaves contacts, interactions and the catalog
\* as they were: the contact inserted for a new name is not kept, and no type
\* is added.
C2_UnknownTypeRollsBack ==
    /\ [](\A c \in Clients :
            (pc[c] # "idle"
                /\ \A t \in interaction_types : t.type_name # req[c].interaction_type
                /\ req[c] # NoReq)
            => /\ pc[c] \notin {"update_contact", "commit"}
               /\ tx[c].ins_interactions = {})
    /\ [][\A c \in Clients :
            (RollsBack(c) /\ tx[c].error = "unknown_type")
            => /\ response'.status = 500
               /\ response'.error = "unknown_type"
               /\ contacts' = contacts
               /\ interactions' = interactions
               /\ interaction_types' = interaction_types]_vars

\* C2 witness: the unknown-type error has just been sent for a new name: the
\* contact sequence has given out an id, and no contact or interaction exists.
C2_Witness ==
    /\ response.op = "post"
    /\ response.error = "unknown_type"
    /\ contacts_id_seq = 1
    /\ contacts = {}
    /\ interactions = {}

\* C3: record_interaction is atomic.  What an open transaction has written is
\* in no committed table, a transaction that ends with ROLLBACK leaves the
\* tables as they were, and no committed contact that record_interaction
\* created (relationship_type 'unknown') is without an interaction.
C3_Atomic ==
    /\ [](/\ \A k \in contacts :
                k.relationship_type = "unknown"
                    => \E i \in interactions : i.contact_id = k.id
          /\ \A c \in Clients :
                /\ \A k \in tx[c].ins_contacts : \A x \in contacts : x.id # k.id
                /\ \A i \in tx[c].ins_interactions :
                       \A x \in interactions : x.id # i.id)
    /\ [][\A c \in Clients : RollsBack(c) => UNCHANGED db]_vars

\* C3 witness: a transaction that had inserted a contact and an interaction
\* has failed and was rolled back; both sequences moved and the tables are
\* empty.
C3_Witness ==
    /\ response.op = "post"
    /\ response.status = 500
    /\ \A c \in Clients : pc[c] = "idle"
    /\ contacts_id_seq = 1
    /\ interactions_id_seq = 1
    /\ contacts = {}
    /\ interactions = {}

\* C4: where calls do not overlap, a committed record_interaction adds exactly
\* one interaction; for a name no committed contact has, it adds exactly one
\* contact, of that name, with relationship_type 'unknown' and NULL phone and
\* email, which owns the interaction; for a name a contact has, it adds no
\* contact and the interaction belongs to the contact of that name.  Either
\* way one contact has the name afterwards.
C4_ResolveOrCreate ==
    [][\A c \in Clients :
        Commits(c) =>
            LET name == req[c].contact_name
                before == { k \in contacts : k.name = name }
                newContacts == { k \in contacts' : \A x \in contacts : x.id # k.id }
                newInteractions ==
                    { i \in interactions' : \A x \in interactions : x.id # i.id }
            IN  /\ Cardinality(newInteractions) = 1
                /\ Cardinality({ k \in contacts' : k.name = name }) = 1
                /\ IF before = {}
                   THEN /\ Cardinality(newContacts) = 1
                        /\ \A k \in newContacts :
                              /\ k.name = name
                              /\ k.relationship_type = "unknown"
                              /\ k.phone_number = NULL
                              /\ k.email = NULL
                              /\ \A i \in newInteractions : i.contact_id = k.id
                   ELSE /\ newContacts = {}
                        /\ \A i \in newInteractions :
                              \E k \in before : i.contact_id = k.id]_vars

\* C4 witness: the second interaction for "Bob" has just been recorded: one
\* contact has the name and it owns two interactions.
C4_Witness ==
    /\ response.op = "post"
    /\ response.status = 201
    /\ Cardinality({ k \in contacts : k.name = "Bob" }) = 1
    /\ \E k \in contacts :
          /\ k.name = "Bob"
          /\ k.relationship_type = "unknown"
          /\ Cardinality({ i \in interactions : i.contact_id = k.id }) = 2

\* C5: a record_interaction that commits answers 201 with the one interaction
\* row it added (the interaction count grows by one), a row with a fresh id
\* whose contact is the resolved contact; that contact's last_interaction_date
\* and updated_at are the interaction's timestamp afterwards.
C5_SuccessEffects ==
    [][\A c \in Clients :
        Commits(c) =>
            /\ response'.status = 201
            /\ Len(response'.rows) = 1
            /\ LET i == response'.rows[1]
               IN  /\ \A x \in interactions : x.id # i.id
                   /\ i.id >= 1
                   /\ interactions' = interactions \cup {i}
                   /\ Cardinality(interactions') = Cardinality(interactions) + 1
                   /\ i.contact_id = tx[c].contactId
                   /\ \E k \in contacts' :
                         /\ k.id = i.contact_id
                         /\ k.name = req[c].contact_name
                         /\ k.last_interaction_date = i.timestamp
                         /\ k.updated_at = i.timestamp]_vars

\* C5 witness: 201 has just been sent for an interaction of a contact that
\* existed before: the contact was modified later than it was created.
C5_Witness ==
    /\ response.op = "post"
    /\ response.status = 201
    /\ \E k \in contacts :
          /\ k.id = response.rows[1].contact_id
          /\ k.created_at < k.updated_at
          /\ k.last_interaction_date = response.rows[1].timestamp

\* C6: nothing in the store makes a contact's name unique: a transaction that
\* inserted a contact commits with 201 and adds exactly that row, also when an
\* overlapping call has meanwhile committed a contact of the same name.
C6_NoUniqueName ==
    [][\A c \in Clients :
        (Commits(c) /\ tx[c].ins_contacts # {}) =>
            /\ response'.status = 201
            /\ \A k \in tx[c].ins_contacts : k \in contacts'
            /\ Cardinality(contacts') = Cardinality(contacts) + 1]_vars

\* C6 witness: two contacts created by record_interaction share a name.
C6_Witness ==
    \E a \in contacts : \E b \in contacts :
        /\ a.id # b.id
        /\ a.name = b.name
        /\ a.relationship_type = "unknown"
        /\ b.relationship_type = "unknown"

\* The ids of the rows of an overdue listing.
ListedIds == { response.rows[j].id : j \in 1..Len(response.rows) }
OverdueListed == response.op = "overdue" /\ response.status = 200

\* C7: a contact with no interaction has a NULL last_interaction_date, and is
\* in every overdue listing, whatever the threshold.
C7_NeverContactedOverdue ==
    \A k \in contacts :
        (\A i \in interactions : i.contact_id # k.id)
        => /\ k.last_interaction_date = NULL_INT
           /\ OverdueListed => k.id \in ListedIds

\* C7 witness: a 50 day listing holds a contact with no interaction and
\* leaves out a contact that has one.
C7_Witness ==
    /\ OverdueListed
    /\ response.days = 50
    /\ \E k \in contacts :
          /\ \A i \in interactions : i.contact_id # k.id
          /\ k.id \in ListedIds
    /\ \E k \in contacts : k.id \notin ListedIds

IsBob(k) ==
    /\ k.name = "Bob"
    /\ Cardinality({ x \in contacts : x.name = "Bob" }) = 1
    /\ { now - i.timestamp : i \in { j \in interactions : j.contact_id = k.id } }
           = { 5 * TicksPerDay, 40 * TicksPerDay }

\* C9 as claimed: the 30 day listing holds Bob with days_since_contact 40,
\* and the 50 day listing does not hold him.
C9_BobOverdueAt30 ==
    \A k \in contacts :
        (IsBob(k) /\ OverdueListed) =>
            /\ response.days = 30 =>
                  \E j \in 1..Len(response.rows) :
                      /\ response.rows[j].id = k.id
                      /\ response.rows[j].days_since_contact = 40
            /\ response.days = 50 => k.id \notin ListedIds

\* C9 as amended: neither the 30 day nor the 50 day listing holds Bob, whose
\* last interaction is 5 days old; the 2 day listing holds him with
\* days_since_contact 5.
C9_BobNotOverdueAt30 ==
    \A k \in contacts :
        (IsBob(k) /\ OverdueListed) =>
            /\ response.days = 30 => k.id \notin ListedIds
            /\ response.days = 50 => k.id \notin ListedIds
            /\ response.days = 2 =>
                  \E j \in 1..Len(response.rows) :
                      /\ response.rows[j].id = k.id
                      /\ response.rows[j].days_since_contact = 5

\* C9 witness: the 30 day listing has just been sent with Bob's interactions
\* 5 and 40 days old.
C9_Witness ==
    /\ OverdueListed
    /\ response.days = 30
    /\ \E k \in contacts : IsBob(k)

\* C10: in an overdue listing no contacted contact comes before a never
\* contacted one, and the contacted ones come in ascending order of
\* last_interaction_date.
C10_OverdueOrder ==
    OverdueListed =>
        \A i \in 1..Len(response.rows) : \A j \in 1..Len(response.rows) :
            i < j =>
                LET a == response.rows[i].last_interaction_date
                    b == response.rows[j].last_interaction_date
                IN  /\ b = NULL_INT => a = NULL_INT
                    /\ (a # NULL_INT /\ b # NULL_INT) => a <= b

\* C10 witness: a listing of a never contacted contact and then two contacted
\* ones, the earlier first.
C10_Witness ==
    /\ OverdueListed
    /\ Len(response.rows) = 3
    /\ response.rows[1].last_interaction_date = NULL_INT
    /\ response.rows[2].last_interaction_date # NULL_INT
    /\ response.rows[2].last_interaction_date < response.rows[3].last_interaction_date

\* C11: the contact listing holds every contact once; no never contacted
\* contact comes before a contacted one, and the contacted ones come in
\* descending order of last_interaction_date.
C11_ListContacts ==
    (response.op = "contacts" /\ response.status = 200) =>
        /\ ListedIds = { k.id : k \in contacts }
        /\ Len(response.rows) = Cardinality(contacts)
        /\ \A i \in 1..Len(response.rows) : \A j \in 1..Len(response.rows) :
              i < j =>
                  LET a == response.rows[i].last_interaction_date
                      b == response.rows[j].last_interaction_date
                  IN  /\ a = NULL_INT => b = NULL_INT
                      /\ (a # NULL_INT /\ b # NULL_INT) => a >= b

\* C11 witness: a listing of two contacted contacts, the later first, and
\* then a never contacted one.
C11_Witness ==
    /\ response.op = "contacts"
    /\ response.status = 200
    /\ Len(response.rows) = 3
    /\ response.rows[2].last_interaction_date # NULL_INT
    /\ response.rows[1].last_interaction_date > response.rows[2].last_interaction_date
    /\ response.rows[3].last_interaction_date = NULL_INT

\* C12: the recent listing for the limit 2 holds min(2, number of
\* interactions) entries, each an interaction, none twice; no interaction
\* left out occurred later than one that is listed, and the entries come in
\* descending order of occurrence.
C12_RecentInteractions ==
    (response.op = "recent" /\ response.status = 200 /\ response.param = << "2" >>) =>
        LET total == Cardinality(interactions)
            listed == { i \in interactions : i.id \in ListedIds }
        IN  /\ Len(response.rows) = IF 2 < total THEN 2 ELSE total
            /\ Cardinality(ListedIds) = Len(response.rows)
            /\ \A j \in 1..Len(response.rows) :
                  \E i \in interactions :
                      i.id = response.rows[j].id /\ i.timestamp = response.rows[j].timestamp
            /\ \A out \in interactions \ listed : \A in \in listed :
                  out.timestamp <= in.timestamp
            /\ \A i \in 1..Len(response.rows) : \A j \in 1..Len(response.rows) :
                  i < j => response.rows[i].timestamp >= response.rows[j].timestamp

\* C12 witness: of three interactions at three times the limit 2 lists the
\* two latest, the latest first.
C12_Witness ==
    /\ response.op = "recent"
    /\ response.status = 200
    /\ response.param = << "2" >>
    /\ Cardinality({ i.timestamp : i \in interactions }) = 3
    /\ Len(response.rows) = 2
    /\ response.rows[1].timestamp > response.rows[2].timestamp
    /\ \E i \in interactions : i.timestamp < response.rows[2].timestamp

\* C13 as claimed: the stats of a contact that has no interaction or one are
\* answered with 200 and a NULL avg_days_between_interactions, unless the
\* store is out of reach.
C13_StatsAvgUndefined ==
    (/\ response.op = "stats"
     /\ response.error # "store"
     /\ \E k \in contacts :
           /\ response.param = << Digits[k.id + 1] >>
           /\ Cardinality({ i \in interactions : i.contact_id = k.id }) <= 1)
    => /\ response.status = 200
       /\ Len(response.rows) = 1
       /\ response.rows[1].avg_days_between_interactions = NULL_INT

\* C14 as claimed: unless the store is out of reach, the details and the
\* stats of a contact id are answered with 404 when no contact has the id and
\* with 200 when one has.
C14_NotFoundIffAbsent ==
    (/\ response.op \in {"contact", "stats"}
     /\ response.error # "store"
     /\ response.param \in { << "1" >>, << "9" >> })
    => LET id == IF response.param = << "1" >> THEN 1 ELSE 9
       IN  IF \E k \in contacts : k.id = id
           THEN response.status = 200
           ELSE response.status = 404

\* C15: schema.sql never fails, run once or again, and once it has been run
\* the catalog holds the seven interaction types, each once.
C15_IdempotentCatalog ==
    /\ response.op = "schema" => (response.status = 0 /\ response.error = "")
    /\ (response.op = "schema" \/ interaction_types # {}) =>
          /\ { t.type_name : t \in interaction_types } =
                { "phone_call", "facetime_audio", "facetime_video", "sms",
                  "imessage", "email", "calendar_meeting" }
          /\ Cardinality(interaction_types) = 7

\* C15 witness: schema.sql has just been run again, on a database that holds
\* a contact already, and inserted no type.
C15_Witness ==
    /\ response.op = "schema"
    /\ response.rows = << >>
    /\ contacts # {}
    /\ Cardinality(interaction_types) = 7

\* C16: a request without contact_name or interaction_type never has a
\* connection or a transaction, and the step that answers 400 changes no
\* table, no sequence and no connection.
C16_RejectedBeforeTransaction ==
    /\ [](\A c \in Clients :
            (pc[c] # "idle" /\ req[c] # NoReq) =>
                /\ req[c].contact_name \notin {UNDEFINED, ""}
                /\ req[c].interaction_type \notin {UNDEFINED, ""})
    /\ [][(response'.op = "post" /\ response'.status = 400) =>
            /\ response'.rows = << >>
            /\ UNCHANGED << db, contacts_id_seq, interactions_id_seq, pc, req, tx >>]_vars

\* C16 witness: 400 has just been answered on a store that holds a contact,
\* with every connection idle.
C16_Witness ==
    /\ response.op = "post"
    /\ response.status = 400
    /\ contacts # {}
    /\ \A c \in Clients : pc[c] = "idle"

\* C17 as claimed: no contact has an empty name or a name of blanks.
C17_NoBlankName ==
    \A k \in contacts : k.name \notin {"", " "}

\* C18 as claimed: unless the store is out of reach, the recent listing for
\* the limit 0 or -1 is answered with 400 and no list.
C18_NonPositiveLimitRejected ==
    (/\ response.op = "recent"
     /\ response.error # "store"
     /\ response.param \in { << "0" >>, << "-", "1" >> })
    => (response.status = 400 /\ response.rows = << >>)

\* C19 as claimed: the overdue listing for a threshold that is no integer is
\* answered with 400, not with the 500 of a failure of the store.
C19_MalformedThresholdRejected ==
    (/\ response.op = "overdue"
     /\ response.error # "store"
     /\ response.param = << "a", "b", "c" >>)
    => response.status = 400

\* C20 as claimed: the interaction a request commits has the timestamp of
\* the request's body when it has one, and the current time when it has none.
C20_ExplicitTimestampStored ==
    [][\A c \in Clients :
        Commits(c) =>
            \A i \in interactions' \ interactions :
                i.timestamp = IF req[c].timestamp # UNDEFINED_NUM
                              THEN req[c].timestamp
                              ELSE tx[c].start]_vars

\* C21: in every state each interaction's contact_id is the id of a contact
\* and its interaction_type_id the id of a catalog type, and each goal's
\* contact_id is the id of a contact: also once a contact has been deleted,
\* whose interactions and goals are gone with it.
C21_ReferentialIntegrity ==
    /\ \A i \in interactions :
          /\ \E k \in contacts : k.id = i.contact_id
          /\ \E t \in interaction_types : t.id = i.interaction_type_id
    /\ \A g \in relationship_goals : \E k \in contacts : k.id = g.contact_id
    /\ (response.op = "delete") =>
          /\ \A k \in contacts : k.id # response.rows[1].contact_id
          /\ \A i \in interactions : i.contact_id # response.rows[1].contact_id
          /\ \A g \in relationship_goals : g.contact_id # response.rows[1].contact_id

\* C21 witness: a contact that had an interaction and a goal has just been
\* deleted, and another contact is left with its interaction.
C21_Witness ==
    /\ response.op = "delete"
    /\ response.rows[1].interactions >= 1
    /\ response.rows[1].goals >= 1
    /\ interactions # {}

\* C22: a step that answers a read (contact listing, overdue listing, recent
\* listing, contact details, contact stats), with success or with an error,
\* leaves every table and every sequence as it was.
C22_ReadsChangeNothing ==
    [][response'.op \in {"contacts", "overdue", "recent", "contact", "stats"} =>
          UNCHANGED << contacts, interactions, interaction_types, relationship_goals,
                       contacts_id_seq, interactions_id_seq >>]_vars

\* C22 witness: a read has just failed with 404 on a store that holds
\* contacts and interactions.
C22_Witness ==
    /\ response.op = "contact"
    /\ response.status = 404
    /\ contacts # {}
    /\ interactions # {}

\* C23: the commit of a request whose name a contact has adds no contact,
\* leaves name, phone_number, email, relationship_type and created_at of
\* every contact as they were, and leaves every contact but the request's as
\* it was.
C23_ExistingContactKept ==
    [][\A c \in Clients :
        (Commits(c) /\ \E k \in contacts : k.name = req[c].contact_name) =>
            /\ Cardinality(contacts') = Cardinality(contacts)
            /\ \A k \in contacts :
                  \E n \in contacts' :
                      /\ n.id = k.id
                      /\ n.name = k.name
                      /\ n.phone_number = k.phone_number
                      /\ n.email = k.email
                      /\ n.relationship_type = k.relationship_type
                      /\ n.created_at = k.created_at
                      /\ k.name # req[c].contact_name => n = k]_vars

\* C23 witness: an interaction has just been recorded for the seeded contact
\* "Mom", who still has her phone number and relationship_type.
C23_Witness ==
    /\ response.op = "post"
    /\ response.status = 201
    /\ \E k \in contacts :
          /\ k.id = response.rows[1].contact_id
          /\ k.name = "Mom"
          /\ k.phone_number = "555-0101"
          /\ k.relationship_type = "family"
          /\ k.last_interaction_date = response.rows[1].timestamp
    /\ \E k \in contacts : k.name = "Dad" /\ k.last_interaction_date = NULL_INT

\* C24 as claimed: unless the store is out of reach, the stats of contact 1
\* are answered with 200 and its number of interactions, the numbers of them
\* that are outgoing and incoming, the least and the greatest of their
\* timestamps, the greatest being the contact's last_interaction_date.
C24_StatsCounts ==
    (/\ response.op = "stats"
     /\ response.error # "store"
     /\ response.param = << "1" >>
     /\ \E k \in contacts : k.id = 1)
    => /\ response.status = 200
       /\ Len(response.rows) = 1
       /\ LET mine == { i \in interactions : i.contact_id = 1 }
              row == response.rows[1]
          IN  /\ row.total_interactions = Cardinality(mine)
              /\ row.outgoing_count = Cardinality({ i \in mine : i.direction = "outgoing" })
              /\ row.incoming_count = Cardinality({ i \in mine : i.direction = "incoming" })
              /\ row.outgoing_count + row.incoming_count <= row.total_interactions
              /\ \A i \in mine : row.first_interaction <= i.timestamp
              /\ \A i \in mine : i.timestamp <= row.last_interaction
              /\ \A k \in contacts : k.id = 1 => row.last_interaction = k.last_interaction_date

\* C25 as claimed: unless the store is out of reach, the stats of contact 1,
\* when it has two interactions or more, are answered with 200 and an
\* avg_days_between_interactions of the whole days between its first and its
\* last interaction divided by the number of interactions less one.
C25_StatsAverage ==
    LET mine == { i \in interactions : i.contact_id = 1 }
        times == { i.timestamp : i \in mine }
    IN  (/\ response.op = "stats"
         /\ response.error # "store"
         /\ response.param = << "1" >>
         /\ \E k \in contacts : k.id = 1
         /\ Cardinality(mine) >= 2)
        => /\ response.status = 200
           /\ Len(response.rows) = 1
           /\ \E first \in times : \E last \in times :
                 /\ \A t \in times : first <= t /\ t <= last
                 /\ response.rows[1].avg_days_between_interactions =
                       ((last - first) \div TicksPerDay) \div (Cardinality(mine) - 1)

\* C26: in an overdue listing days_since_contact is NULL for the entries
\* whose last_interaction_date is NULL and for no other; in the others it is
\* a number of days that is not negative and not less than the threshold.
C26_DaysSinceContact ==
    OverdueListed =>
        \A j \in 1..Len(response.rows) :
            LET row == response.rows[j]
            IN  IF row.last_interaction_date = NULL_INT
                THEN row.days_since_contact = NULL_INT
                ELSE /\ row.days_since_contact # NULL_INT
                     /\ row.days_since_contact >= 0
                     /\ row.days_since_contact >= response.days
                     /\ row.days_since_contact * TicksPerDay <= now - row.last_interaction_date

\* C26 witness: a 2 day listing of a never contacted contact and of one
\* contacted 3 days ago.
C26_Witness ==
    /\ OverdueListed
    /\ response.days = 2
    /\ Len(response.rows) >= 2
    /\ response.rows[1].days_since_contact = NULL_INT
    /\ response.rows[2].days_since_contact = 3

\* C27 as claimed: the direction of every interaction is NULL, "incoming" or
\* "outgoing".
C27_DirectionEnum ==
    \A i \in interactions : i.direction \in {NULL, "incoming", "outgoing"}

\* C28 as claimed: the commit of a request leaves no contact with a
\* last_interaction_date earlier than the one it had before the commit.
C28_LastInteractionNeverDecreases ==
    [][\A c \in Clients :
        Commits(c) =>
            \A k \in contacts :
                k.last_interaction_date # NULL_INT =>
                    \E n \in contacts' :
                        /\ n.id = k.id
                        /\ n.last_interaction_date # NULL_INT
                        /\ n.last_interaction_date >= k.last_interaction_date]_vars

C30_SeedTwiceNoDuplicates ==
    (seed.pc = "idle" /\ seed.runs = 2) =>
        \A j \in 1..SeedContactCount :
            Cardinality(ContactsNamed(contacts, SeedContacts[j].name)) = 1

====
